---- MODULE Spec2Model ----
(***************************************************************************)
(* The time-bounded memoization layer of medhrec (src/src/edhrec/caching.py) *)
(* generate_wrapped_func(function, cache) returns wrapper, *)
(* and every decorator (commander_cache, combo_cache, ...) gives the        *)
(* function it wraps a dict of its own.                                     *)
(*                                                                         *)
(* Time is in seconds.  With one thread a wrapped call is one action: it   *)
(* runs from its clock read to its return.                                  *)
(*                                                                         *)
(* Spec draws calls with one positional argument and every behaviour of the *)
(* clock and of the wrapped function; ArgSpec draws pairs of calls of every *)
(* argument shape up to MaxArity.  ParamSpec and MethodSpec draw pairs of    *)
(* calls of the methods of EDHRec (src/medhrec/medhrec.py) that the         *)
(* decorators wrap.  ConcSpec runs two threads through the wrapper one line *)
(* at a time.                                                               *)
(***************************************************************************)
EXTENDS Integers, Sequences, FiniteSets, TLC

\* ------------------------------------------------------------------ bounds
MaxCalls == 3       \* wrapped calls in one run
MaxArity == 2       \* positional plus keyword arguments of one call

\* ------------------------------------------------- constants of the program
TTL == 86400        \* timedelta(seconds=86400)

\* The wrapped functions: each decorator application owns one dict.
Funcs == {"get_commander_data", "get_card_combos"}

\* Every method of EDHRec the model wraps.
Wrapped == Funcs \cup {"get_commanders_average_deck", "get_commander_decks"}

\* The client instances.
Clients == {"c1", "c2"}

\* Argument values.  "u" stands for a value without a hash (a list, a dict).
Vals == {"a", "b", "u"}
Unhashable == {"u"}

\* Keyword names, in the order Python compares strings.
NameOrder == <<"bracket", "budget", "tag">>
KwNames == {NameOrder[i] : i \in 1..Len(NameOrder)}

\* What the wrapped function returns when it returns.
Results == {"r1", "r2"}

\* Seconds the clock has advanced when a call reads it, and seconds the wrapped
\* function takes.
Deltas == {0, TTL - 1}
Durs == {0, 1}

None == "None"

\* --------------------------------------------------------------- the inputs
Names(kw) == {kw[i][1] : i \in 1..Len(kw)}

\* The keyword arguments as the call wrote them: n (name, value) pairs, no name
\* twice.
KwSeqs(n) == {kw \in [1..n -> KwNames \X Vals] : Cardinality(Names(kw)) = n}

\* Every call of at most MaxArity arguments: <<args, kwargs>>.
CallArgs ==
  UNION {[1..p -> Vals] \X KwSeqs(k) : <<p, k>> \in {x \in (0..MaxArity) \X (0..MaxArity) : x[1] + x[2] <= MaxArity}}

\* Calls with one positional argument, as get_card_combos(card_name) takes.
OneArg == {<< <<v>>, <<>> >> : v \in Vals}

\* What one invocation of the wrapped function does: return a value or raise.
FnOutcomes == [kind : {"ret"}, val : Results] \cup {[kind |-> "raise", val |-> "fn_error"]}

\* ------------------------------------------------------- key derivation (l.8)
Rank(name) == CHOOSE i \in 1..Len(NameOrder) : NameOrder[i] = name

\* Tuple comparison of two kwargs items: by name; names of one call differ, so
\* the values are never compared.
ItemLess(p, q) == Rank(p[1]) < Rank(q[1])

RECURSIVE Insert(_, _)
Insert(p, s) ==
  IF s = <<>> THEN <<p>>
  ELSE IF ItemLess(p, Head(s)) THEN <<p>> \o s
  ELSE <<Head(s)>> \o Insert(p, Tail(s))

RECURSIVE Sorted(_)
Sorted(kw) == IF kw = <<>> THEN <<>> ELSE Insert(Head(kw), Sorted(Tail(kw)))

\* Mutants of the key: the keyword items left in the order the call wrote them,
\* and the keyword items left out.
CacheKeyUnsorted(args, kwargs) == <<args, kwargs>>
CacheKeyNoKw(args, kwargs) == <<args, <<>> >>

\* Mutant: a key of the argument values alone, however they were passed.
CacheKeyValues(args, kwargs) ==
  <<args \o [i \in 1..Len(kwargs) |-> Sorted(kwargs)[i][2]], <<>> >>

\* Mutant: a key that leaves the instance out.
CacheKeyNoSelf(args, kwargs) == <<Tail(args), Sorted(kwargs)>>

\* cache_key = (args, tuple(sorted(kwargs.items())))
CacheKey(args, kwargs) == <<args, Sorted(kwargs)>>

\* Mutant: every key is taken as a mapping key (the key is its repr).
HashableAll(key) == TRUE

\* hash(cache_key) hashes every element of both tuples.
Hashable(key) ==
  /\ \A i \in 1..Len(key[1]) : key[1][i] \notin Unhashable
  /\ \A i \in 1..Len(key[2]) : key[2][i][2] \notin Unhashable

\* ------------------------------------------------------------ wrapper pieces
\* Mutant: one dict for every wrapped function.
SharedCache(f) == "get_commander_data"

\* The dict a decorator hands to generate_wrapped_func: one per wrapped function.
CacheOf(f) == f

\* cache_key in cache
\* Mutant: an entry holding None counts as absent.
PresentTruthy(c, key) == key \in DOMAIN c /\ c[key].result # None

Present(c, key) == key \in DOMAIN c

\* Mutants of the expiry test: the comparison turned round, and made strict.
ExpiredFlipped(entry, n) == n <= entry.expiry
ExpiredStrict(entry, n) == n > entry.expiry
\* Mutant: an entry is taken as expired one second early.
ExpiredEarly(entry, n) == n + 1 >= entry.expiry

\* now >= cache[cache_key].get("expiry")
Expired(entry, n) == n >= entry.expiry

\* Mutant: the expiry counted from the time the wrapped function returned.
NewEntryAtFinish(result, n, finished) == [result |-> result, expiry |-> finished + TTL]

\* expiry = now + timedelta(seconds=86400); {"result": result, "expiry": expiry}
\* `finished` is the time the wrapped function returned; the code does not read it.
NewEntry(result, n, finished) == [result |-> result, expiry |-> n + TTL]

\* Mutant: the assignment to a key that is present replaces the result and
\* leaves the expiry.
StoreTorn(c, key, entry) ==
  [k \in DOMAIN c \cup {key} |->
     IF k = key
     THEN IF key \in DOMAIN c THEN [result |-> entry.result, expiry |-> c[key].expiry]
          ELSE entry
     ELSE c[k]]

\* Mutants: the assignment replaces the dict by one holding the new entry alone,
\* and the assignment gives every entry the new expiry.
StoreTouchAll(c, key, entry) ==
  [k \in DOMAIN c \cup {key} |->
     IF k = key THEN entry ELSE [result |-> c[k].result, expiry |-> entry.expiry]]

StoreOnly(c, key, entry) == [k \in {key} |-> entry]

\* cache[cache_key] = entry
Store(c, key, entry) == [k \in DOMAIN c \cup {key} |-> IF k = key THEN entry ELSE c[k]]

\* Mutant: a hit pushes the expiry of the entry it read a TTL on.
OnHitSlide(c, key, n) ==
  [k \in DOMAIN c |-> IF k = key THEN [result |-> c[k].result, expiry |-> n + TTL] ELSE c[k]]

\* The dict after a hit (line 15 reads it and assigns nothing).
OnHit(c, key, n) == c

\* Mutant: the failure is memoized for a TTL.
OnRaiseMemo(c, key, n) ==
  [k \in DOMAIN c \cup {key} |-> IF k = key THEN [result |-> None, expiry |-> n + TTL] ELSE c[k]]

\* The dict after the wrapped function raised at line 11 or 17: the
\* assignment after it never runs.
OnRaise(c, key, n) == c

\* ------------------------------------------------------------------- state
VARIABLES
  cache,    \* cache[d]: the dict d, key -> entry
  clock,    \* the latest time the process has seen
  calls,    \* wrapped calls made so far
  last,     \* the call that ended last
  prev,     \* the call that ended before it
  log,      \* log[f][key]: the invocations of f's function that returned, oldest first
  build,    \* build[client]: the client's current_build_id
  route,    \* the methods of EDHRec called from outside, oldest first
  thr,      \* thr[t]: where concurrent caller t is in the wrapper, and its locals
  lastw     \* lastw[key]: the caller that last assigned cache[key], and its locals

vars == <<cache, clock, calls, last, prev, log, build, route, thr, lastw>>

\* The wrapped function was not invoked.
\* The threads that call one wrapped function concurrently.
Callers == {"t1", "t2"}

\* A caller outside the wrapper.
Idle == [pc |-> "idle", key |-> <<>>, now |-> 0, own |-> None, value |-> None,
         path |-> "none", outcome |-> "none"]

NoFn == [kind |-> "none", val |-> None]

NoCall == [f |-> None, args |-> <<>>, kwargs |-> <<>>, key |-> <<>>, now |-> 0,
           invoked |-> 0, fn |-> NoFn, outcome |-> None, value |-> None]

Init ==
  /\ cache = [f \in Wrapped |-> <<>>]
  /\ clock = 0
  /\ calls = 0
  /\ last = NoCall
  /\ prev = NoCall
  /\ log = [f \in Wrapped |-> <<>>]
  /\ build = [c \in Clients |-> None]
  /\ route = <<>>
  /\ thr = [t \in Callers |-> Idle]
  /\ lastw = <<>>

\* The record of a call that ended: what it was given, the time it read, whether
\* it invoked the wrapped function and what that did, and what the caller got.
Ended(f, args, kwargs, key, n, invoked, fn, outcome, value) ==
  [f |-> f, args |-> args, kwargs |-> kwargs, key |-> key, now |-> n,
   invoked |-> invoked, fn |-> fn, outcome |-> outcome, value |-> value]

KwSet(kwargs) == {kwargs[i] : i \in 1..Len(kwargs)}

Logged(l, key, n, args, kwargs, result) ==
  LET old == IF key \in DOMAIN l THEN l[key] ELSE <<>>
  IN [k \in DOMAIN l \cup {key} |->
        IF k = key THEN Append(old, [now |-> n, args |-> args, kw |-> KwSet(kwargs),
                                     result |-> result])
        ELSE l[k]]

\* wrapper(args, kwargs) of the function wrapped as f.  d: the seconds since the
\* process last saw the clock; out, dur: what the wrapped function does if it is
\* invoked, and how long it takes.
Call(f, args, kwargs, d, out, dur) ==
  LET n == clock + d
      key == CacheKey(args, kwargs)
      c == cache[CacheOf(f)]
  IN
  /\ calls' = calls + 1
  /\ prev' = last
  /\ IF ~Hashable(key) THEN
       \* `cache_key in cache` raises TypeError: unhashable type
       /\ last' = Ended(f, args, kwargs, key, n, 0, NoFn, "TypeError", None)
       /\ clock' = n
       /\ UNCHANGED <<cache, log>>
     ELSE IF Present(c, key) /\ ~Expired(c[key], n) THEN
       \* line 15: return cache[cache_key].get("result")
       /\ cache' = [cache EXCEPT ![CacheOf(f)] = OnHit(c, key, n)]
       /\ last' = Ended(f, args, kwargs, key, n, 0, NoFn, "ret", c[key].result)
       /\ clock' = n
       /\ UNCHANGED log
     ELSE IF out.kind = "raise" THEN
       \* line 11 or 17 raises: nothing after it runs
       /\ cache' = [cache EXCEPT ![CacheOf(f)] = OnRaise(c, key, n)]
       /\ last' = Ended(f, args, kwargs, key, n, 1, out, "raise", out.val)
       /\ clock' = n + dur
       /\ UNCHANGED log
     ELSE
       LET c2 == Store(c, key, NewEntry(out.val, n, n + dur))
           \* the refresh path rereads the dict (line 15); the miss path
           \* returns `result` (line 20)
           value == IF Present(c, key) THEN c2[key].result ELSE out.val
       IN
       /\ cache' = [cache EXCEPT ![CacheOf(f)] = c2]
       /\ last' = Ended(f, args, kwargs, key, n, 1, out, "ret", value)
       /\ clock' = n + dur
       /\ log' = [log EXCEPT ![f] = Logged(log[f], key, n, args, kwargs, out.val)]

Step(F, A, O, R) ==
  \E f \in F, a \in A, d \in Deltas, out \in O, dur \in R :
    Call(f, a[1], a[2], d, out, dur)

\* Calls of one positional argument to both wrapped functions.
Next == calls < MaxCalls /\ Step(Funcs, OneArg, FnOutcomes, Durs)
        /\ UNCHANGED <<build, route, thr, lastw>>

Spec == Init /\ [][Next]_vars

\* A pair of calls of any argument shape to one wrapped function that returns.
Returning == {o \in FnOutcomes : o.kind = "ret"}

ArgNext ==
  calls < 2 /\ Step({"get_commander_data"}, CallArgs, Returning, {0})
    /\ UNCHANGED <<build, route, thr, lastw>>

ArgSpec == Init /\ [][ArgNext]_vars

\* ------------------------------------------------------- concurrent callers
\* Two threads in the wrapper of get_commander_data, one line at a time.
ConcDeltas == {0, TTL}

At(t, pc, path, outcome) ==
  [thr EXCEPT ![t].pc = pc, ![t].path = path, ![t].outcome = outcome]

\* Mutant: a caller waits while another caller is fetching for the same key.
WaitsForFetch(t) ==
  \E u \in Callers \ {t} : thr[u].pc = "write" /\ thr[u].key = thr[t].key

\* The wrapper takes no lock and waits for nothing between its lines.
Waits(t) == FALSE

\* lines 7-8: now and cache_key
Begin(t, a, d) ==
  /\ calls < 3
  /\ thr[t].pc \in {"idle", "done"}
  /\ calls' = calls + 1
  /\ clock' = clock + d
  /\ thr' = [thr EXCEPT ![t] = [pc |-> "test", key |-> CacheKey(a[1], a[2]),
                                now |-> clock + d, own |-> None, value |-> None,
                                path |-> "none", outcome |-> "none"]]
  /\ UNCHANGED <<cache, lastw, last, prev, log, build, route>>

\* line 9: cache_key in cache
Member(t) ==
  /\ thr[t].pc = "test"
  /\ thr' = IF ~Hashable(thr[t].key) THEN At(t, "done", "none", "TypeError")
            ELSE IF Present(cache[CacheOf("get_commander_data")], thr[t].key)
                 THEN At(t, "expiry", "none", "none")
                 ELSE At(t, "invoke", "miss", "none")
  /\ UNCHANGED <<cache, lastw, clock, calls, last, prev, log, build, route>>

\* line 10: now >= cache[cache_key].get("expiry")
ExpiryTest(t) ==
  /\ thr[t].pc = "expiry"
  /\ thr' = IF Expired(cache[CacheOf("get_commander_data")][thr[t].key], thr[t].now)
            THEN At(t, "invoke", "refresh", "none")
            ELSE At(t, "read", "hit", "none")
  /\ UNCHANGED <<cache, lastw, clock, calls, last, prev, log, build, route>>

\* lines 11 and 17: the wrapped function returns or raises
Invoke(t) ==
  /\ thr[t].pc = "invoke"
  /\ ~Waits(t)
  /\ \E out \in FnOutcomes :
       thr' = IF out.kind = "raise"
              THEN [thr EXCEPT ![t].pc = "done", ![t].outcome = "raise",
                               ![t].value = out.val]
              ELSE [thr EXCEPT ![t].pc = "write", ![t].own = out.val]
  /\ UNCHANGED <<cache, lastw, clock, calls, last, prev, log, build, route>>

\* lines 12-13 and 18-20: the assignment to cache[cache_key]; the miss path
\* returns `result`
Write(t) ==
  LET c == cache[CacheOf("get_commander_data")] IN
  /\ thr[t].pc = "write"
  /\ cache' = [cache EXCEPT ![CacheOf("get_commander_data")] =
                 Store(c, thr[t].key, NewEntry(thr[t].own, thr[t].now, clock))]
  /\ lastw' = [k \in DOMAIN lastw \cup {thr[t].key} |->
                 IF k = thr[t].key
                 THEN [by |-> t, result |-> thr[t].own, now |-> thr[t].now]
                 ELSE lastw[k]]
  /\ thr' = IF thr[t].path = "refresh"
            THEN [thr EXCEPT ![t].pc = "read"]
            ELSE [thr EXCEPT ![t].pc = "done", ![t].outcome = "ret",
                             ![t].value = thr[t].own]
  /\ UNCHANGED <<clock, calls, last, prev, log, build, route>>

\* line 15: return cache[cache_key].get("result")
Read(t) ==
  /\ thr[t].pc = "read"
  /\ thr' = [thr EXCEPT ![t].pc = "done", ![t].outcome = "ret",
               ![t].value = cache[CacheOf("get_commander_data")][thr[t].key].result]
  /\ UNCHANGED <<cache, lastw, clock, calls, last, prev, log, build, route>>

ConcNext ==
  \E t \in Callers :
    \/ \E a \in OneArg, d \in ConcDeltas : Begin(t, a, d)
    \/ Member(t)
    \/ ExpiryTest(t)
    \/ Invoke(t)
    \/ Write(t)
    \/ Read(t)

ConcSpec == Init /\ [][ConcNext]_vars

\* ------------------------------------------------------- the EDHRec methods
\* (src/medhrec/medhrec.py)  The wrapped methods as the functions the wrapper
\* invokes: what they send, what they return or raise, what they leave in the
\* client.

\* The allowed values of the classification parameters (available_brackets,
\* available_tags, available_budgets), and a value none of them allows.
Available == [bracket |-> {"br"}, tag |-> {"tg"}, budget |-> {"bd"}]
Outside == "zz"

\* not x: None and the empty string are false.
Falsy(x) == x \in {None, ""}

\* The parameters of the methods, self first.
Signature(m) ==
  IF m = "get_card_combos" THEN <<"self", "card_name">>
  ELSE <<"self", "card_name", "bracket", "tag", "budget">>

Required == {"self", "card_name"}

IndexOf(sig, name) == CHOOSE i \in 1..Len(sig) : sig[i] = name

\* Python's binding of (args, kwargs) to the parameters: an error for too many
\* positional arguments, an unknown keyword, a parameter given twice, a
\* required parameter not given; a default of None otherwise.
BindError(sig, args, kwargs) ==
  \/ Len(args) > Len(sig)
  \/ \E i \in 1..Len(kwargs) :
       \/ \A j \in 1..Len(sig) : sig[j] # kwargs[i][1]
       \/ \E j \in 1..Len(sig) : sig[j] = kwargs[i][1] /\ j <= Len(args)
  \/ \E r \in Required :
       /\ IndexOf(sig, r) > Len(args)
       /\ \A i \in 1..Len(kwargs) : kwargs[i][1] # r

Bound(sig, args, kwargs, name) ==
  LET j == IndexOf(sig, name) IN
  IF j <= Len(args) THEN args[j]
  ELSE IF \E i \in 1..Len(kwargs) : kwargs[i][1] = name
       THEN LET i == CHOOSE i \in 1..Len(kwargs) : kwargs[i][1] = name IN kwargs[i][2]
       ELSE None

\* What the home page gives get_build_id: a build id, none, or an HTTP error.
HomePages == {"live", "none", "error"}

\* What the server answers the data request: 404, JSON without pageProps, or
\* JSON whose pageProps hold data.
Responses == {"404", "no_pageProps", "r1", "r2"}

\* check_build_id: [id: current_build_id after it, sent: home page requests,
\* ok: it returned].
CheckBuildId(id, home) ==
  IF id # None THEN [id |-> id, sent |-> 0, ok |-> TRUE]
  ELSE IF home = "error" THEN [id |-> None, sent |-> 1, ok |-> FALSE]
  ELSE IF home = "none" THEN [id |-> "default", sent |-> 1, ok |-> TRUE]
  ELSE [id |-> "live", sent |-> 1, ok |-> TRUE]

\* Mutant: a parameter outside its enumeration is left out of the URI.
InvalidNever(p, x) == FALSE

\* A truthy parameter outside its enumeration: the raise of _build_nextjs_uri.
Invalid(p, x) == ~Falsy(x) /\ x \notin Available[p]

\* _build_nextjs_uri raises for the first of bracket, tag, budget that is invalid.
UriInvalid(b, t, g) == Invalid("bracket", b) \/ Invalid("tag", t) \/ Invalid("budget", g)

\* _get_nextjs_data
NextjsData(resp) == IF resp = "no_pageProps" THEN None ELSE resp

\* What one invocation did: returned val or raised val, having sent `sent` data
\* requests, and the client's build id after it.
Did(kind, val, sent, id) == [kind |-> kind, val |-> val, sent |-> sent, id |-> id]

\* The body of wrapped method m for the bound parameters, the build id the
\* client holds, and what the server answers.
Body(m, id, b, t, g, home, resp) ==
  LET chk == CheckBuildId(id, home) IN
  IF ~chk.ok THEN Did("raise", "http_error", 0, chk.id)
  ELSE IF m # "get_card_combos" /\ UriInvalid(b, t, g) THEN
    Did("raise", "invalid_parameter", 0, chk.id)
  ELSE IF resp = "404" THEN Did("raise", "not_found", 1, chk.id)
  ELSE IF m = "get_commanders_average_deck" THEN
    \* data.get("deck") of no data raises AttributeError
    IF NextjsData(resp) = None THEN Did("raise", "AttributeError", 1, chk.id)
    ELSE Did("ret", <<"decklist", NextjsData(resp)>>, 1, chk.id)
  ELSE Did("ret", NextjsData(resp), 1, chk.id)

\* The invocation of wrapped method m with (args, kwargs), as the wrapper invokes it.
Invocation(m, args, kwargs, home, resp) ==
  LET sig == Signature(m) IN
  IF BindError(sig, args, kwargs) THEN Did("raise", "TypeError", 0, None)
  ELSE Body(m, build[args[1]],
            IF Len(sig) > 2 THEN Bound(sig, args, kwargs, "bracket") ELSE None,
            IF Len(sig) > 2 THEN Bound(sig, args, kwargs, "tag") ELSE None,
            IF Len(sig) > 2 THEN Bound(sig, args, kwargs, "budget") ELSE None,
            home, resp)

\* A call of wrapped method m on a client: the wrapper, and the build id the
\* invocation left in the client if the wrapper made one.
Method(m, args, kwargs, d, home, resp) ==
  LET inv == Invocation(m, args, kwargs, home, resp) IN
  /\ Call(m, args, kwargs, d, inv, 0)
  /\ build' = IF last'.invoked = 1 /\ inv.val # "TypeError"
              THEN [build EXCEPT ![args[1]] = inv.id] ELSE build

\* Calls that give the three classification parameters by keyword, as every
\* caller in the class does.
ParamCalls ==
  {<< <<"c1", "a">>, << <<"bracket", b>>, <<"tag", t>>, <<"budget", g>> >> >> :
     b \in {None, "br", Outside}, t \in {None, "tg", Outside}, g \in {None, "bd", Outside}}

ParamNext ==
  /\ calls < 2
  /\ \E m \in Wrapped \ {"get_card_combos"}, a \in ParamCalls, d \in {0},
        home \in HomePages, resp \in Responses \ {"r2"} :
       /\ Method(m, a[1], a[2], d, home, resp)
       /\ route' = Append(route, m)
       /\ UNCHANGED <<thr, lastw>>

ParamSpec == Init /\ [][ParamNext]_vars

\* The ways a caller writes a call of get_commander_data(card_name, bracket):
\* bracket by position, by keyword, left out, all three parameters by keyword,
\* and bracket given twice.
DirectCalls(self) ==
  {<< <<self, "a">>, <<>> >>, << <<self, "a", "br">>, << <<"bracket", "br">> >> >>}
  \cup {<< <<self, "a", b>>, <<>> >> : b \in {None, "br"}}
  \cup {<< <<self, "a">>, << <<"bracket", b>> >> >> : b \in {None, "br"}}
  \cup {<< <<self, "a">>, << <<"bracket", b>>, <<"tag", None>>, <<"budget", None>> >> >> :
           b \in {None, "br"}}

\* A call of one method of EDHRec from outside, which calls wrapped method m
\* with (args, kwargs).
Enter(name, m, args, kwargs) ==
  /\ route' = Append(route, name)
  /\ UNCHANGED <<thr, lastw>>
  /\ \E d \in Deltas, home \in HomePages, resp \in Responses :
       Method(m, args, kwargs, d, home, resp)

GetCommanderData ==
  \E self \in Clients : \E a \in DirectCalls(self) :
    Enter("get_commander_data", "get_commander_data", a[1], a[2])

\* get_commander_tags(card_name, bracket): get_commander_data(card_name, bracket=bracket)
GetCommanderTags ==
  \E self \in Clients, bracket \in {None, "br"} :
    Enter("get_commander_tags", "get_commander_data",
          <<self, "a">>, << <<"bracket", bracket>> >>)

\* get_commander_cards(card_name, bracket), through _get_cardlist_from_container:
\* get_commander_data(card_name, bracket=bracket, tag=tag, budget=budget)
GetCommanderCards ==
  \E self \in Clients, bracket \in {None, "br"} :
    Enter("get_commander_cards", "get_commander_data",
          <<self, "a">>, << <<"bracket", bracket>>, <<"tag", None>>, <<"budget", None>> >>)

GetCardCombos ==
  \E self \in Clients :
    Enter("get_card_combos", "get_card_combos", <<self, "a">>, <<>>)

MethodNext ==
  /\ calls < 2
  /\ (GetCommanderData \/ GetCommanderTags \/ GetCommanderCards \/ GetCardCombos)

MethodSpec == Init /\ [][MethodNext]_vars

\* ------------------------------------------------------------------ claims
\* The step is a wrapped call.
IsCall == calls' = calls + 1

\* The call of the step has the arguments of the call before it.
SameCall == last'.f = last.f /\ last'.args = last.args /\ last'.kwargs = last.kwargs

\* The entry the call of the step finds under its key, if there is one.
Found == last'.key \in DOMAIN cache[last'.f]
FoundEntry == cache[last'.f][last'.key]

FreshHitStep ==
  (IsCall /\ Found /\ last'.now < FoundEntry.expiry)
    => /\ last'.invoked = 0
       /\ last'.outcome = "ret"
       /\ last'.value = FoundEntry.result

TwiceStep ==
  (IsCall /\ SameCall /\ last.invoked = 1 /\ last.outcome = "ret"
     /\ last'.now < last.now + TTL)
    => /\ last'.invoked = 0
       /\ last'.outcome = "ret"
       /\ last'.value = last.value

\* C1: a call that finds its key with now < expiry does not invoke the wrapped
\* function and returns the stored result; a call that follows, within the TTL,
\* a call with the same arguments that invoked the function and returned invokes
\* nothing and returns the same value (one invocation across the two).
C1_FreshHit == [][FreshHitStep /\ TwiceStep]_vars

C1_Witness ==
  /\ calls >= 2
  /\ prev.invoked = 1 /\ prev.outcome = "ret"
  /\ last.f = prev.f /\ last.args = prev.args /\ last.kwargs = prev.kwargs
  /\ last.invoked = 0 /\ last.outcome = "ret" /\ last.value = prev.value

RefreshStep ==
  (IsCall /\ Found /\ last'.now >= FoundEntry.expiry)
    => /\ last'.invoked = 1
       /\ last'.fn.kind = "ret" =>
            /\ last'.outcome = "ret"
            /\ last'.value = last'.fn.val
            /\ cache'[last'.f][last'.key] =
                 [result |-> last'.fn.val, expiry |-> last'.now + TTL]

\* C2: a call that finds its key with now >= expiry (equality included) invokes
\* the wrapped function once and, when that returns, overwrites the entry with
\* that result and now + 86400 and returns that result.
C2_ExpiryRefetch == [][RefreshStep]_vars

\* A refresh exactly at the expiry time that returns a value other than the old.
C2_Witness ==
  /\ calls >= 2
  /\ prev.invoked = 1 /\ prev.outcome = "ret"
  /\ last.f = prev.f /\ last.key = prev.key
  /\ last.now = prev.now + TTL
  /\ last.invoked = 1 /\ last.outcome = "ret" /\ last.value # prev.value

RaiseStep ==
  (IsCall /\ last'.outcome = "raise") => (last'.invoked = 1 /\ cache' = cache)

RetryStep ==
  (IsCall /\ SameCall /\ last.outcome = "raise") => last'.invoked = 1

\* C3: a call in which the wrapped function raises leaves every dict as it was
\* (no new key, a stale entry keeps its result and expiry), and the next call
\* with the same arguments invokes the wrapped function again.
C3_ErrorNotMemoized == [][RaiseStep /\ RetryStep]_vars

\* A failed refresh of a stale entry, retried: the stale entry is still there.
C3_Witness ==
  /\ calls >= 3
  /\ prev.outcome = "raise"
  /\ last.f = prev.f /\ last.args = prev.args /\ last.kwargs = prev.kwargs
  /\ last.invoked = 1
  /\ last.key \in DOMAIN cache[last.f]
  /\ cache[last.f][last.key].expiry <= prev.now

\* No argument value of the call is without a hash.
AllHashable(call) ==
  /\ \A i \in 1..Len(call.args) : call.args[i] \notin Unhashable
  /\ \A i \in 1..Len(call.kwargs) : call.kwargs[i][2] \notin Unhashable

KwOrderStep ==
  (IsCall /\ calls >= 1 /\ last'.f = last.f /\ last'.args = last.args
     /\ KwSet(last'.kwargs) = KwSet(last.kwargs))
    => /\ last'.key = last.key
       /\ (last.invoked = 1 /\ last.outcome = "ret" /\ last'.now < last.now + TTL)
            => (last'.invoked = 0 /\ last'.outcome = "ret" /\ last'.value = last.value)

\* C4: two calls with the same positional arguments and the same keyword
\* (name, value) pairs in any textual order derive the same key, and the second,
\* within the TTL of a first that invoked the wrapped function and returned,
\* hits that entry: it invokes nothing and returns the same value.
C4_KeywordOrder == [][KwOrderStep]_vars

\* Two keywords given in the two orders: one invocation across both calls.
C4_Witness ==
  /\ calls = 2
  /\ Len(prev.kwargs) = 2 /\ prev.kwargs # last.kwargs
  /\ KwSet(prev.kwargs) = KwSet(last.kwargs)
  /\ prev.f = last.f /\ prev.args = last.args
  /\ prev.invoked = 1 /\ prev.outcome = "ret"
  /\ last.invoked = 0 /\ last.outcome = "ret" /\ last.value = prev.value

\* The (positional arguments, keyword pairs) of the invocations of f that returned.
FetchedBy(f) ==
  UNION {{<<log[f][k][i].args, log[f][k][i].kw>> : i \in 1..Len(log[f][k])} : k \in DOMAIN log[f]}

DistinctKeyStep ==
  (IsCall /\ calls >= 1 /\ last'.f = last.f
     /\ (last'.args # last.args \/ KwSet(last'.kwargs) # KwSet(last.kwargs)))
    => last'.key # last.key

OwnFetchStep ==
  (IsCall /\ AllHashable(last')
     /\ <<last'.args, KwSet(last'.kwargs)>> \notin FetchedBy(last'.f))
    => last'.invoked = 1

\* C5: calls whose positional argument sequences differ (in a position or in
\* order) or whose keyword pairs differ derive different keys; a call whose
\* arguments no returned invocation had invokes the wrapped function whatever
\* other entries are fresh; and a dict holds one entry for each argument
\* combination fetched.
C5_ArgumentSensitive ==
  /\ [](\A f \in Funcs : Cardinality(DOMAIN cache[f]) = Cardinality(FetchedBy(f)))
  /\ [][DistinctKeyStep /\ OwnFetchStep]_vars

\* The same two positional values in the two orders: two invocations, two entries.
C5_Witness ==
  /\ calls = 2
  /\ prev.f = last.f /\ prev.kwargs = last.kwargs
  /\ Len(prev.args) = 2 /\ Len(last.args) = 2 /\ prev.args # last.args
  /\ prev.args[1] = last.args[2] /\ prev.args[2] = last.args[1]
  /\ prev.invoked = 1 /\ prev.outcome = "ret"
  /\ last.invoked = 1 /\ last.outcome = "ret"
  /\ Cardinality(DOMAIN cache[last.f]) = 2

IsolationStep ==
  IsCall => \A g \in Funcs \ {last'.f} : cache'[g] = cache[g]

OwnMissStep ==
  (IsCall /\ AllHashable(last') /\ ~Found)
    => /\ last'.invoked = 1
       /\ last'.fn.kind = "ret" => (last'.outcome = "ret" /\ last'.value = last'.fn.val)

\* C6: a call to one wrapped function leaves the dict of every other wrapped
\* function as it was, and a call whose key its own dict lacks invokes its own
\* function and returns that result, whatever the other dicts hold.
C6_CacheIsolation == [][IsolationStep /\ OwnMissStep]_vars

\* The same arguments given to both functions while the first entry is fresh:
\* both invoke, and the two entries hold different results.
C6_Witness ==
  /\ calls >= 2
  /\ prev.f # last.f /\ prev.key = last.key
  /\ prev.invoked = 1 /\ prev.outcome = "ret"
  /\ last.invoked = 1 /\ last.outcome = "ret"
  /\ last.now < prev.now + TTL
  /\ cache[prev.f][prev.key].result # cache[last.f][last.key].result

\* What the wrapped function did is what the caller got.
FromFn(call) ==
  \/ call.outcome = "ret"
  \/ call.outcome = "raise" /\ call.invoked = 1 /\ call.fn.kind = "raise"
       /\ call.value = call.fn.val

\* C7 as stated: every wrapped call returns a value or raises the error the
\* wrapped function raised in that call; the wrapper raises nothing of its own.
C7_Original == calls > 0 => FromFn(last)

\* C7 amended: so it is when every argument value is hashable; with an argument
\* value that is not, the lookup raises TypeError and the wrapped function is
\* not invoked.
C7_Amended ==
  calls > 0 =>
    IF AllHashable(last) THEN FromFn(last)
    ELSE last.outcome = "TypeError" /\ last.invoked = 0

\* Both cases: a TypeError of the lookup, then an error of the wrapped function.
C7_Witness ==
  /\ prev.outcome = "TypeError" /\ prev.invoked = 0
  /\ last.outcome = "raise" /\ last.invoked = 1

\* C8: every entry of every dict expires 86400 seconds after the time read at
\* the start of the call that wrote it, on the miss and on the refresh path.
C8_FixedTTL ==
  \A f \in Funcs :
    /\ DOMAIN cache[f] = DOMAIN log[f]
    /\ \A k \in DOMAIN cache[f] :
         cache[f][k].expiry = log[f][k][Len(log[f][k])].now + 86400

\* An entry written by a miss and one written by a refresh, the refresh by an
\* invocation that took time.
C8_Witness ==
  /\ last.invoked = 1 /\ last.outcome = "ret" /\ clock > last.now
  /\ Len(log[last.f][last.key]) >= 2
  /\ \E k \in DOMAIN log[last.f] : Len(log[last.f][k]) = 1

NewKeys == UNION {{<<f, k>> : k \in DOMAIN cache'[f] \ DOMAIN cache[f]} : f \in Funcs}

NoEvictionStep ==
  /\ \A f \in Funcs : DOMAIN cache[f] \subseteq DOMAIN cache'[f]
  /\ Cardinality(NewKeys) <= 1
  /\ \A f \in Funcs : \A k \in DOMAIN cache[f] :
       cache'[f][k] # cache[f][k]
         => (IsCall /\ last'.f = f /\ last'.key = k /\ last'.now >= cache[f][k].expiry)

\* C9: a key once present stays present; a call adds at most one key, and an
\* entry changes only in a call with its own key at or after its expiry.
C9_NoEviction == [][NoEvictionStep]_vars

\* A dict with two keys, one of them refreshed.
C9_Witness ==
  \E f \in Funcs :
    /\ Cardinality(DOMAIN cache[f]) >= 2
    /\ \E k \in DOMAIN log[f] : Len(log[f][k]) >= 2

\* C10: two invocations for one key that both returned belong to calls whose
\* clock reads are at least 86400 seconds apart.
C10_OneFetchPerWindow ==
  \A f \in Funcs : \A k \in DOMAIN log[f] :
    \A i, j \in 1..Len(log[f][k]) :
      i < j => log[f][k][j].now - log[f][k][i].now >= 86400

\* Two invocations for one key exactly 86400 seconds apart.
C10_Witness ==
  \E f \in Funcs : \E k \in DOMAIN log[f] :
    /\ Len(log[f][k]) >= 2
    /\ log[f][k][2].now - log[f][k][1].now = 86400

HitFrameStep ==
  (IsCall /\ Found /\ last'.now < FoundEntry.expiry) => cache' = cache

WriteFrameStep ==
  IsCall =>
    \A f \in Funcs :
      /\ DOMAIN cache'[f] \subseteq
           DOMAIN cache[f] \cup (IF f = last'.f THEN {last'.key} ELSE {})
      /\ \A k \in DOMAIN cache[f] :
           (f # last'.f \/ k # last'.key)
             => (k \in DOMAIN cache'[f] /\ cache'[f][k] = cache[f][k])

\* C15: a fresh hit leaves every dict as it was, the entry it read included
\* (result and expiry); a miss or a refresh changes the entry under the key of
\* the call and no other.
C15_Frame == [][HitFrameStep /\ WriteFrameStep]_vars

\* A write beside another key's entry, then a hit on that other entry.
C15_Witness ==
  /\ calls = 3
  /\ prev.invoked = 1 /\ prev.outcome = "ret"
  /\ prev.f = last.f /\ prev.key # last.key
  /\ last.invoked = 0 /\ last.outcome = "ret"

\* C16: a value a call returns was produced by an invocation made in a call
\* whose clock read is less than 86400 seconds before the returning call's.
C16_Staleness ==
  (calls > 0 /\ last.outcome = "ret") =>
    /\ last.key \in DOMAIN log[last.f]
    /\ \E i \in 1..Len(log[last.f][last.key]) :
         LET e == log[last.f][last.key][i] IN
         /\ e.result = last.value
         /\ last.now - e.now >= 0
         /\ last.now - e.now < 86400

\* A hit on a value one second short of the TTL old.
C16_Witness ==
  /\ last.outcome = "ret" /\ last.invoked = 0
  /\ \E i \in 1..Len(log[last.f][last.key]) :
       last.now - log[last.f][last.key][i].now = 86399

\* The call binds a truthy value outside its enumeration to bracket, tag or budget.
InvalidCall(call) ==
  /\ ~BindError(Signature(call.f), call.args, call.kwargs)
  /\ \E p \in {"bracket", "tag", "budget"} :
       LET x == Bound(Signature(call.f), call.args, call.kwargs, p)
       IN x \notin {None, ""} /\ x \notin Available[p]

InvalidParamStep ==
  (IsCall /\ InvalidCall(last'))
    => /\ last'.invoked = 1
       /\ last'.outcome = "raise"
       /\ last'.value = last'.fn.val
       /\ last'.fn.sent = 0
       /\ (build[last'.args[1]] # None => last'.value = "invalid_parameter")
       /\ cache' = cache
       /\ last'.key \notin DOMAIN cache'[last'.f]

\* C11: a call of get_commander_data, get_commanders_average_deck or
\* get_commander_decks that gives bracket, tag or budget a non-empty value
\* outside its enumeration raises without sending the data request; the
\* wrapper passes the error on and creates no entry, so the same call invokes
\* the method and raises again every time it is repeated.
C11_InvalidParameter == [][InvalidParamStep]_vars

\* The same invalid call made twice: both invoked the method, both raised the
\* invalid-parameter error.
C11_Witness ==
  /\ calls = 2
  /\ InvalidCall(last)
  /\ prev.f = last.f /\ prev.args = last.args /\ prev.kwargs = last.kwargs
  /\ prev.invoked = 1 /\ prev.value = "invalid_parameter"
  /\ last.invoked = 1 /\ last.value = "invalid_parameter"
  /\ last.fn.sent = 0

\* Both calls bind without error, and bind every parameter to the same value.
SameBinding(x, y) ==
  LET sig == Signature(x.f) IN
  /\ x.f = y.f
  /\ ~BindError(sig, x.args, x.kwargs)
  /\ ~BindError(sig, y.args, y.kwargs)
  /\ \A j \in 1..Len(sig) :
       Bound(sig, x.args, x.kwargs, sig[j]) = Bound(sig, y.args, y.kwargs, sig[j])

\* The calls were written differently: other positional arguments, or other
\* keyword items.
OtherShape(x, y) == x.args # y.args \/ KwSet(x.kwargs) # KwSet(y.kwargs)

TagsAndCards ==
  route \in {<<"get_commander_tags", "get_commander_cards">>,
             <<"get_commander_cards", "get_commander_tags">>}

\* C17: two calls that bind the same values to the same parameters but pass
\* them differently (by position or by keyword, or with defaults written out)
\* have different keys and each invokes the method; so get_commander_tags and
\* get_commander_cards on one client never share a commander-data entry.
C17_PassingStyle ==
  /\ (calls = 2 /\ SameBinding(prev, last) /\ OtherShape(prev, last))
       => /\ prev.key # last.key
          /\ prev.invoked = 1
          /\ last.invoked = 1
  /\ (calls = 2 /\ TagsAndCards /\ prev.args = last.args)
       => /\ prev.key # last.key
          /\ last.invoked = 1
          /\ last.key \notin DOMAIN log[last.f] \/ Len(log[last.f][last.key]) = 1

\* get_commander_tags then get_commander_cards on one client with the same
\* bracket: both fetched, and the dict holds two entries.
C17_Witness ==
  /\ calls = 2
  /\ route = <<"get_commander_tags", "get_commander_cards">>
  /\ SameBinding(prev, last)
  /\ prev.outcome = "ret" /\ last.outcome = "ret"
  /\ prev.invoked = 1 /\ last.invoked = 1
  /\ Cardinality(DOMAIN cache["get_commander_data"]) = 2

\* The two calls differ in the instance alone.
OtherClient(x, y) ==
  /\ x.f = y.f
  /\ x.args[1] # y.args[1]
  /\ Tail(x.args) = Tail(y.args)
  /\ x.kwargs = y.kwargs

\* C18: the dict of a wrapped method is one for all clients and the instance
\* is the first positional component of the key: calls on two clients with the
\* same arguments otherwise have distinct keys and each invokes the method, and
\* a call served from the dict is served an entry written through its own
\* instance.
C18_KeyedByInstance ==
  /\ (calls > 0 /\ Len(last.args) > 0) => last.key[1][1] = last.args[1]
  /\ (calls = 2 /\ OtherClient(prev, last))
       => /\ prev.key # last.key
          /\ last.invoked = 1
  /\ (calls > 0 /\ last.invoked = 0 /\ last.outcome = "ret")
       => \A i \in 1..Len(log[last.f][last.key]) :
            log[last.f][last.key][i].args[1] = last.args[1]
  /\ \A f \in Wrapped : \A k \in DOMAIN cache[f] :
       \A i \in 1..Len(log[f][k]) : log[f][k][i].args[1] = k[1][1]

\* The same call on the two clients: both fetched, and the one dict of the
\* method holds the entries of both.
C18_Witness ==
  /\ calls = 2
  /\ OtherClient(prev, last)
  /\ prev.outcome = "ret" /\ last.outcome = "ret"
  /\ prev.invoked = 1 /\ last.invoked = 1
  /\ {k[1][1] : k \in DOMAIN cache[last.f]} = Clients

NoneHitStep ==
  (IsCall /\ Found /\ FoundEntry.result = None /\ last'.now < FoundEntry.expiry)
    => /\ last'.invoked = 0
       /\ last'.outcome = "ret"
       /\ last'.value = None
       /\ UNCHANGED <<cache, log>>

NoneStoredStep ==
  (IsCall /\ last'.invoked = 1 /\ last'.fn.kind = "ret" /\ last'.fn.val = None)
    => /\ last'.key \in DOMAIN cache'[last'.f]
       /\ cache'[last'.f][last'.key] = [result |-> None, expiry |-> last'.now + 86400]
       /\ last'.outcome = "ret"
       /\ last'.value = None

\* C19: an entry is present when its key is in the dict, whatever it holds: a
\* method that returns None (get_card_combos on a response without pageProps)
\* has None stored like any result, and a call with the same key inside the TTL
\* returns None without invoking the method.
C19_NoneMemoized == [][NoneHitStep /\ NoneStoredStep]_vars

\* get_card_combos twice on one client: the first got a response without
\* pageProps and returned None, the second returned None from the dict.
C19_Witness ==
  /\ calls = 2
  /\ route = <<"get_card_combos", "get_card_combos">>
  /\ prev.invoked = 1 /\ prev.fn.val = None /\ prev.outcome = "ret"
  /\ last.key = prev.key
  /\ last.invoked = 0 /\ last.outcome = "ret" /\ last.value = None

\* C12: with two callers in the wrapper on one key whose entry is absent or
\* expired, nothing holds back the second fetch: a caller that is due to invoke
\* the wrapped function can always do so, whatever the other caller is doing,
\* so both may have invoked it before either has written.
C12_NoSingleFlight ==
  \A t \in Callers : thr[t].pc = "invoke" => ENABLED Invoke(t)

\* Both callers have invoked the wrapped function for the same key and neither
\* has written yet.
C12_Witness ==
  /\ thr["t1"].pc = "write" /\ thr["t2"].pc = "write"
  /\ thr["t1"].key = thr["t2"].key
  /\ thr["t1"].path = "refresh" /\ thr["t2"].path = "refresh"

\* C13: under every interleaving a key is absent, or maps to the one pair its
\* last writer assigned: that caller's own result and that caller's own
\* now + 86400.
C13_NoCorruption ==
  LET c == cache["get_commander_data"] IN
  /\ DOMAIN c = DOMAIN lastw
  /\ \A k \in DOMAIN c :
       /\ c[k] = [result |-> lastw[k].result, expiry |-> lastw[k].now + 86400]
       /\ \A t \in Callers :
            (thr[t].pc = "done" /\ lastw[k].by = t /\ thr[t].key = k
               /\ thr[t].outcome = "ret" /\ thr[t].path # "hit")
              => c[k] = [result |-> thr[t].own, expiry |-> thr[t].now + 86400]

\* Two callers raced to refresh one key with different results and different
\* clock readings, and both have finished.
C13_Witness ==
  /\ thr["t1"].pc = "done" /\ thr["t2"].pc = "done"
  /\ thr["t1"].key = thr["t2"].key
  /\ thr["t1"].path = "refresh" /\ thr["t2"].path = "refresh"
  /\ thr["t1"].own # thr["t2"].own
  /\ thr["t1"].now # thr["t2"].now
  /\ lastw[thr["t1"].key].by = "t1"

\* C14 as stated: a call that found the entry expired and invoked the wrapped
\* function returns the result of its own invocation.
C14_OwnResult ==
  \A t \in Callers :
    (thr[t].pc = "done" /\ thr[t].path = "refresh" /\ thr[t].outcome = "ret")
      => thr[t].value = thr[t].own

====
